---- MODULE Spec2Model ----
(***************************************************************************)
(* The forecast aggregation of ForecastScreen: the flat list of 3-hour     *)
(* samples of the forecast payload is grouped by local calendar day and    *)
(* reduced to one summary per day (min/max temperature, most common        *)
(* weather condition, date), and the summaries are sorted by date.         *)
(* Around it: the views of HomeScreen and ForecastScreen, the App's        *)
(* settings, storage and fetches, and the handlers of SettingsScreen.      *)
(***************************************************************************)
EXTENDS Integers, Sequences, FiniteSets, TLC

VARIABLES forecastData, loading, settings, view, dailyForecasts, renders, homeView,
          listKeys, weatherData, fetches, storage, storageQueue, locationInput, mounted,
          launchStorage, userActed, lastSaveOk, alert

\* the state of the screens: what ForecastScreen and HomeScreen rendered
screenVars == <<view, dailyForecasts, renders, homeView, listKeys>>

\* the state of the App besides forecastData, loading and settings
appVars == <<weatherData, fetches, storage, storageQueue, locationInput, mounted,
             launchStorage, userActed, lastSaveOk, alert>>

vars == <<forecastData, loading, settings, screenVars, appVars>>

----------------------------------------------------------------------------
(* Bounds of the model *)

\* longest sample list of a forecast payload
MaxLen == 3
\* length of a local calendar day in timestamp units (86400 s at full scale)
DayLen == 2
\* offset of the local time zone from UTC in timestamp units
TzOffset == 0
\* longest sample list of a payload that is rendered repeatedly
MaxRerenderLen == 2
\* number of renders of the same props
MaxRenders == 2
\* number of calls of fetchWeatherData in one run of the App
MaxFetches == 2

----------------------------------------------------------------------------
(* JavaScript values *)

\* the value undefined, where a string is expected
Undefined == "<undefined>"

\* String(v) as used for a property key: undefined becomes the key "undefined"
ToKey(v) == IF v = Undefined THEN "undefined" ELSE v

\* an absent weather entry (item.weather[0] of an empty weather array)
NoDetail == [main |-> Undefined, description |-> Undefined, icon |-> Undefined]

\* the condition entries a sample can carry as weather[0]
Conditions ==
  { [main |-> "Rain",    description |-> "light rain",    icon |-> "10d"],
    [main |-> "Rain",    description |-> "moderate rain", icon |-> "10n"],
    [main |-> "Clouds",  description |-> "few clouds",    icon |-> "02d"],
    [main |-> Undefined, description |-> "mist",          icon |-> "50d"] }

\* the timestamps (item.dt) and the temperatures of the samples
Times == 0..3
Temps == 0..1

\* item.main of a sample
MainOf(lo, hi) == [temp_min |-> lo, temp_max |-> hi]

\* one element of forecastData.list
Sample(dt, lo, hi, weather) == [dt |-> dt, main |-> MainOf(lo, hi), weather |-> weather]

WeatherArrays == {<<>>} \cup { <<c>> : c \in Conditions }

\* samples whose temperatures vary (temp_min <= temp_max, as the API reports them),
\* all with the same condition
TempSamples ==
  { Sample(dt, t[1], t[2], <<[main |-> "Clouds", description |-> "few clouds", icon |-> "02d"]>>) :
      dt \in Times, t \in { u \in Temps \X Temps : u[1] <= u[2] } }

\* samples whose condition varies (present, without main, or no entry at all)
WeatherSamples ==
  { Sample(dt, 0, 1, w) : dt \in Times, w \in WeatherArrays }

SeqsUpTo(S, n) == UNION { [1..k -> S] : k \in 0..n }

ForecastLists == SeqsUpTo(TempSamples, MaxLen) \cup SeqsUpTo(WeatherSamples, MaxLen)

\* the forecastData prop: null before the first successful fetch, else a payload with a list
NullData == [kind |-> "null", list |-> <<>>]
Payload(list) == [kind |-> "payload", list |-> list]
\* a response body without list (an error body such as {cod, message})
NoListData == [kind |-> "nolist", list |-> <<>>]
\* a response body whose list is a truthy value that is no array (an object, a string)
NotArrayData == [kind |-> "notarray", list |-> <<>>]

\* the settings the App starts with, and the two unit systems
DefaultSettings == [location |-> "London", units |-> "metric"]
Units == {"metric", "imperial"}

----------------------------------------------------------------------------
(* Dates *)

\* new Date(dt * 1000): milliseconds since the epoch
ToDate(dt) == dt * 1000

\* Date.prototype.toLocaleDateString(): the local calendar date, time of day discarded
ToLocaleDateString(date) == (date + TzOffset * 1000) \div (DayLen * 1000)

\* a key that keeps the time of day (toLocaleString for toLocaleDateString)
DateTimeKeyOf(item) == ToDate(item.dt)

\* the key under which a sample is grouped (line 44)
DateKeyOf(item) == ToLocaleDateString(ToDate(item.dt))

----------------------------------------------------------------------------
(* Grouping (lines 40-53) *)

\* groupedByDay is an object keyed by the date string; its keys are not integer
\* indices, so Object.keys yields them in insertion order.  It is modelled as the
\* sequence of its [date, items] properties in insertion order.

\* the index of the property with this key, 0 when there is none
KeyIndex(grouped, key) ==
  IF \E i \in 1..Len(grouped) : grouped[i].date = key
  THEN CHOOSE i \in 1..Len(grouped) : grouped[i].date = key
  ELSE 0

\* a callback that assigns a fresh array on every sample ([item] for push(item))
PushReplaces(grouped, item) ==
  LET date == DateKeyOf(item)
      i == KeyIndex(grouped, date)
  IN IF i = 0
     THEN Append(grouped, [date |-> date, items |-> <<item>>])
     ELSE [grouped EXCEPT ![i].items = <<item>>]

\* the body of the forEach callback: create the day's array if missing, push the item
PushItem(grouped, item) ==
  LET date == DateKeyOf(item)
      i == KeyIndex(grouped, date)
  IN IF i = 0
     THEN Append(grouped, [date |-> date, items |-> <<item>>])
     ELSE [grouped EXCEPT ![i].items = Append(@, item)]

RECURSIVE GroupPrefix(_, _)
\* groupedByDay after the first n items of the list
GroupPrefix(list, n) ==
  IF n = 0 THEN <<>> ELSE PushItem(GroupPrefix(list, n - 1), list[n])

groupedByDay(list) == GroupPrefix(list, Len(list))

----------------------------------------------------------------------------
(* Reduction of one day (lines 56-93) *)

\* Math.min(...values) and Math.max(...values) of a non-empty array
MathMin(values) ==
  CHOOSE m \in {values[i] : i \in 1..Len(values)} :
    \A i \in 1..Len(values) : m <= values[i]

MathMax(values) ==
  CHOOSE m \in {values[i] : i \in 1..Len(values)} :
    \A i \in 1..Len(values) : m >= values[i]

\* the minimum taken over temp_max (a copied line left unchanged)
MinOfTempMax(items) == MathMin([i \in 1..Len(items) |-> items[i].main.temp_max])

minTemp(items) == MathMin([i \in 1..Len(items) |-> items[i].main.temp_min])

\* the first sample's temp_max, without the reduction over the day
FirstTempMax(items) == items[1].main.temp_max

maxTemp(items) == MathMax([i \in 1..Len(items) |-> items[i].main.temp_max])

\* item.weather[0]: the first entry, undefined for an empty weather array
Weather0(item) == IF item.weather = <<>> THEN NoDetail ELSE item.weather[1]

\* item.weather[0].main throws a TypeError when weather[0] is undefined (line 67)
TallyThrows(items) == \E i \in 1..Len(items) : items[i].weather = <<>>

\* a tally that records a condition once and never increments it
TallyOnce(counts, condition) ==
  IF \E i \in 1..Len(counts) : counts[i].condition = condition
  THEN counts
  ELSE Append(counts, [condition |-> condition, count |-> 1])

\* weatherCounts[condition] = (weatherCounts[condition] || 0) + 1, on the object
\* modelled as the sequence of its [condition, count] properties in insertion order
Tally(counts, condition) ==
  IF \E i \in 1..Len(counts) : counts[i].condition = condition
  THEN LET i == CHOOSE i \in 1..Len(counts) : counts[i].condition = condition
       IN [counts EXCEPT ![i].count = @ + 1]
  ELSE Append(counts, [condition |-> condition, count |-> 1])

RECURSIVE CountPrefix(_, _)
\* weatherCounts after the first n items of the day
CountPrefix(items, n) ==
  IF n = 0 THEN <<>>
  ELSE Tally(CountPrefix(items, n - 1), ToKey(Weather0(items[n]).main))

weatherCounts(items) == CountPrefix(items, Len(items))

\* findLast for find: the index of the last match, 0 for undefined
FindLastIndex(items, condition) ==
  IF \E i \in 1..Len(items) : Weather0(items[i]).main = condition
  THEN CHOOSE i \in 1..Len(items) :
         /\ Weather0(items[i]).main = condition
         /\ \A j \in (i + 1)..Len(items) : Weather0(items[j]).main # condition
  ELSE 0

\* items.find(item => item.weather[0].main === condition): the index of the first
\* match, 0 for undefined.  The key "undefined" equals no item's main.
FindIndex(items, condition) ==
  IF \E i \in 1..Len(items) : Weather0(items[i]).main = condition
  THEN CHOOSE i \in 1..Len(items) :
         /\ Weather0(items[i]).main = condition
         /\ \A j \in 1..(i - 1) : Weather0(items[j]).main # condition
  ELSE 0

\* the test with >= for >: the last of the tied conditions wins
AtLeast(count, maxCount) == count >= maxCount

\* the test of line 76
Exceeds(count, maxCount) == count > maxCount

RECURSIVE MostCommonPrefix(_, _, _)
\* mostCommonWeather and maxCount after the first n keys of weatherCounts;
\* threw when find returned undefined and .weather was read from it (line 79-81)
MostCommonPrefix(items, counts, n) ==
  IF n = 0
  THEN [weather |-> Weather0(items[1]), maxCount |-> 0, threw |-> FALSE]
  ELSE LET prev == MostCommonPrefix(items, counts, n - 1)
           found == FindIndex(items, counts[n].condition)
       IN IF prev.threw \/ ~Exceeds(counts[n].count, prev.maxCount)
          THEN prev
          ELSE IF found = 0
               THEN [prev EXCEPT !.maxCount = counts[n].count, !.threw = TRUE]
               ELSE [weather |-> Weather0(items[found]),
                     maxCount |-> counts[n].count,
                     threw |-> FALSE]

mostCommonWeather(items) ==
  LET counts == weatherCounts(items)
  IN MostCommonPrefix(items, counts, Len(counts))

\* the date taken from the last sample of the day
LastDate(items) == ToDate(items[Len(items)].dt)

\* the date of a day's entry: new Date(items[0].dt * 1000)
EntryDate(items) == ToDate(items[1].dt)

\* the callback of the map over Object.keys(groupedByDay): the entry of one day,
\* or a throw
DayEntry(items) ==
  IF TallyThrows(items)
  THEN [threw |-> TRUE, entry |-> <<>>]
  ELSE LET common == mostCommonWeather(items)
       IN IF common.threw
          THEN [threw |-> TRUE, entry |-> <<>>]
          ELSE [threw |-> FALSE,
                entry |-> [date |-> EntryDate(items),
                           minTemp |-> minTemp(items),
                           maxTemp |-> maxTemp(items),
                           weather |-> common.weather,
                           items |-> items]]

----------------------------------------------------------------------------
(* Sort (line 96) *)

\* the comparator with its operands exchanged: (a, b) => b.date - a.date
CompareDateDescending(a, b) == b.date - a.date

\* the comparator (a, b) => a.date - b.date
CompareDate(a, b) == a.date - b.date

\* insert an entry after the entries that do not compare greater (stable)
RECURSIVE InsertSorted(_, _)
InsertSorted(sorted, e) ==
  IF sorted = <<>> THEN <<e>>
  ELSE IF CompareDate(sorted[Len(sorted)], e) <= 0
       THEN Append(sorted, e)
       ELSE Append(InsertSorted(SubSeq(sorted, 1, Len(sorted) - 1), e), sorted[Len(sorted)])

RECURSIVE SortPrefix(_, _)
SortPrefix(entries, n) ==
  IF n = 0 THEN <<>> ELSE InsertSorted(SortPrefix(entries, n - 1), entries[n])

\* the entries left in the order of Object.keys, the sort omitted
Unsorted(entries) == entries

\* Array.prototype.sort with CompareDate: a stable sort
SortByDate(entries) == SortPrefix(entries, Len(entries))

----------------------------------------------------------------------------
(* The aggregation (lines 40-96) and the component (lines 13-150) *)

\* an aggregation that also fails when there is no day at all
ThrewOrEmpty(days) == days = <<>> \/ \E i \in 1..Len(days) : days[i].threw

\* the run aborts when the callback of some day throws
Threw(days) == \E i \in 1..Len(days) : days[i].threw

\* dailyForecasts for a sample list: [threw, value]
Aggregate(list) ==
  LET grouped == groupedByDay(list)
      days == [i \in 1..Len(grouped) |-> DayEntry(grouped[i].items)]
  IN IF Threw(days)
     THEN [threw |-> TRUE, value |-> <<>>]
     ELSE [threw |-> FALSE,
           value |-> SortByDate([i \in 1..Len(days) |-> days[i].entry])]

\* what the component renders for its props: the guards of lines 15 and 25, then
\* forecastData.list.forEach, which is no function on a value that is no array
ForecastScreen(data, isLoading) ==
  IF isLoading /\ data.kind = "null"
  THEN [view |-> "loading", dailyForecasts |-> <<>>]
  ELSE IF data.kind \in {"null", "nolist"}
       THEN [view |-> "unavailable", dailyForecasts |-> <<>>]
       ELSE IF data.kind = "notarray"
            THEN [view |-> "threw", dailyForecasts |-> <<>>]
            ELSE LET r == Aggregate(data.list)
                 IN IF r.threw
                    THEN [view |-> "threw", dailyForecasts |-> <<>>]
                    ELSE [view |-> "list", dailyForecasts |-> r.value]

\* an aggregation that reverses forecastData.list in place before grouping
ReversedInPlace(list) == [i \in 1..Len(list) |-> list[Len(list) + 1 - i]]

\* forecastData.list after the aggregation: it is only read (forEach, push of its
\* items into new arrays), the sort is applied to the new array dailyForecasts
ListAfterAggregate(list) == list

\* Date.prototype.toISOString(): the UTC date and the UTC time of day, to the
\* millisecond
ToISOString(date) ==
  [day |-> date \div (DayLen * 1000), time |-> date % (DayLen * 1000)]

\* a key made of the time of day alone (toLocaleTimeString for toISOString)
KeyByTimeOfDay(item) == ToISOString(item.date).time

\* the key of a row of the FlatList (line 145)
keyExtractor(item) == ToISOString(item.date)

\* a HomeScreen that shows the indicator whenever loading is set (if (loading))
HomeScreenWhileLoading(data, isLoading) ==
  IF isLoading
  THEN [view |-> "loading"]
  ELSE IF data.kind = "null"
       THEN [view |-> "error"]
       ELSE [view |-> "weather"]

\* what HomeScreen renders for its props: the guards of part_001 lines 23 and 33,
\* then the current weather
HomeScreen(data, isLoading) ==
  IF isLoading /\ data.kind = "null"
  THEN [view |-> "loading"]
  ELSE IF data.kind = "null"
       THEN [view |-> "error"]
       ELSE [view |-> "weather"]

----------------------------------------------------------------------------
(* The App: values (part_002 lines 1402-1497, SettingsScreen lines 26-63) *)

\* no item under the key 'weatherSettings' (getItem resolves to null)
NoItem == <<>>

\* a stored string that is no JSON
Garbage == <<"garbage">>

\* a serialisation that writes the location and leaves the units at their default
StringifyLocation(s) == <<s.location, "metric">>

\* JSON.stringify(settings): the stored string, modelled as the pair of its values
Stringify(s) == <<s.location, s.units>>

\* JSON.parse throws a SyntaxError on a string that is no JSON
ParseThrows(str) == Len(str) # 2

\* JSON.parse of a stored settings string
Parse(str) == [location |-> str[1], units |-> str[2]]

\* the list of popular cities offered for selection
POPULAR_CITIES == {"London", "Tokyo"}

\* the texts typed into the location input
LocationTexts == {" Paris ", " ", ""}

\* a trim of the end of the text alone (trimEnd for trim)
TrimEnd(text) ==
  IF text = " " THEN ""
  ELSE IF text = " Paris " THEN " Paris"
  ELSE text

\* String.prototype.trim: white space removed from both ends
Trim(text) ==
  IF text = " " THEN ""
  ELSE IF text = " Paris " THEN "Paris"
  ELSE text

\* what storage can hold when the App is launched
LaunchStorages == {NoItem, Garbage, Stringify([location |-> "Tokyo", units |-> "imperial"])}

\* response.data of the requests of the i-th call of fetchWeatherData
AppPayload(i) == [kind |-> "payload", list |-> <<>>, fetch |-> i]

\* the App is not running: the state in which ForecastScreen is studied alone
AppIdle ==
  /\ weatherData = NullData
  /\ fetches = <<>>
  /\ storage = NoItem
  /\ storageQueue = <<>>
  /\ locationInput = DefaultSettings.location
  /\ mounted = FALSE
  /\ launchStorage = NoItem
  /\ userActed = FALSE
  /\ lastSaveOk = TRUE
  /\ alert = "none"

----------------------------------------------------------------------------
(* State machine *)

\* the props the component is rendered with; nothing is rendered yet.  Without data
\* a fetch is in flight or has failed; a payload is rendered when its fetch is over.
Init ==
  /\ forecastData \in {NullData, NoListData, NotArrayData} \cup {Payload(l) : l \in ForecastLists}
  /\ loading \in (IF forecastData.kind = "payload" THEN {FALSE} ELSE BOOLEAN)
  /\ settings = DefaultSettings
  /\ view = "none"
  /\ dailyForecasts = <<>>
  /\ renders = 0
  /\ homeView = "none"
  /\ listKeys = <<>>
  /\ AppIdle

\* the bodies of the component functions: the view and dailyForecasts are computed
\* from the props, which are left as they are
RenderStep ==
  /\ LET r == ForecastScreen(forecastData, loading)
     IN /\ view' = r.view
        /\ dailyForecasts' = r.dailyForecasts
        /\ listKeys' = [j \in 1..Len(r.dailyForecasts) |-> keyExtractor(r.dailyForecasts[j])]
  /\ homeView' = HomeScreen(weatherData, loading).view
  /\ forecastData' = [forecastData EXCEPT !.list = ListAfterAggregate(@)]
  /\ renders' = renders + 1
  /\ UNCHANGED <<loading, settings, appVars>>

\* the first render of ForecastScreen with its props
Render ==
  /\ view = "none"
  /\ RenderStep

Next == Render

Spec == Init /\ [][Next]_vars

\* a later render with the same props (the parent re-renders)
ReRender ==
  /\ view # "none"
  /\ renders < MaxRenders
  /\ RenderStep

\* the samples of short lists: temperatures and conditions both vary
RerenderLists == SeqsUpTo(TempSamples \cup WeatherSamples, MaxRerenderLen)

\* the props of both screens: a forecast is stored only by a call that stored
\* its current weather before (part_002 lines 1463, 1477), so a forecast payload
\* is never held without current weather
InitRerender ==
  /\ forecastData \in {NullData, NoListData, NotArrayData} \cup {Payload(l) : l \in RerenderLists}
  /\ loading \in BOOLEAN
  /\ settings \in { [location |-> "London", units |-> u] : u \in Units }
  /\ view = "none"
  /\ dailyForecasts = <<>>
  /\ renders = 0
  /\ homeView = "none"
  /\ listKeys = <<>>
  /\ weatherData \in (IF forecastData = NullData THEN {NullData, AppPayload(1)}
                                                  ELSE {AppPayload(1)})
  /\ fetches = <<>>
  /\ storage = NoItem
  /\ storageQueue = <<>>
  /\ locationInput = DefaultSettings.location
  /\ mounted = FALSE
  /\ launchStorage = NoItem
  /\ userActed = FALSE
  /\ lastSaveOk = TRUE
  /\ alert = "none"

NextRerender == Render \/ ReRender

\* ForecastScreen rendered several times with the same props
SpecRerender == InitRerender /\ [][NextRerender]_vars

----------------------------------------------------------------------------
(* The App: state machine *)

\* useState initial values (lines 1404-1410); storage holds what an earlier run left
InitApp ==
  /\ weatherData = NullData
  /\ forecastData = NullData
  /\ loading = TRUE
  /\ settings = DefaultSettings
  /\ fetches = <<>>
  /\ storage \in LaunchStorages
  /\ launchStorage = storage
  /\ storageQueue = <<>>
  /\ locationInput = DefaultSettings.location
  /\ mounted = FALSE
  /\ userActed = FALSE
  /\ lastSaveOk = TRUE
  /\ alert = "none"
  /\ view = "none"
  /\ dailyForecasts = <<>>
  /\ renders = 0
  /\ homeView = "none"
  /\ listKeys = <<>>

\* saveSettings up to its await: AsyncStorage.setItem is issued with the settings
\* of the render whose effect runs.  Storage serves its requests in issue order.
saveSettings(queue, s) == Append(queue, [op |-> "set", value |-> Stringify(s)])

\* fetchWeatherData up to its first await: setLoading(true), the request for the
\* current weather is sent with the settings of the render that made the call
StartFetch(s) ==
  /\ Len(fetches) < MaxFetches
  /\ loading' = TRUE
  /\ fetches' = Append(fetches, [params |-> s, stage |-> "weather"])

\* the effect on [settings] (lines 1417-1422) for the settings s of the new render
SettingsEffect(queue, s) ==
  /\ storageQueue' = saveSettings(queue, s)
  /\ StartFetch(s)

\* first render: the mount effect calls loadSettings (getItem is issued), then the
\* effect on [settings] saves the default settings and fetches
Mount ==
  /\ ~mounted
  /\ mounted' = TRUE
  /\ SettingsEffect(Append(storageQueue, [op |-> "get"]), settings)
  /\ UNCHANGED <<forecastData, settings, screenVars, weatherData, storage,
                 locationInput, launchStorage, userActed, lastSaveOk, alert>>

\* setSettings(s) from SettingsScreen or loadSettings, and the effect of the render
\* it causes
SetSettings(s) ==
  /\ settings' = s
  /\ SettingsEffect(storageQueue, s)

\* onChangeText={setLocationInput} (SettingsScreen line 76)
ChangeLocationInput(text) ==
  /\ mounted
  /\ locationInput' = text
  /\ UNCHANGED <<forecastData, loading, settings, screenVars, weatherData, fetches,
                 storage, storageQueue, mounted, launchStorage, userActed, lastSaveOk, alert>>

\* an updateLocation without the check of the input
updateLocationUnchecked ==
  /\ mounted
  /\ SetSettings([settings EXCEPT !.location = Trim(locationInput)])
  /\ userActed' = TRUE
  /\ alert' = "Success"
  /\ UNCHANGED <<forecastData, screenVars, weatherData, storage, locationInput,
                 mounted, launchStorage, lastSaveOk>>

\* updateLocation (SettingsScreen lines 31-45): a blank input is rejected with an
\* alert, any other input is trimmed and set
updateLocation ==
  /\ mounted
  /\ IF Trim(locationInput) = ""
     THEN /\ alert' = "Error"
          /\ UNCHANGED <<loading, settings, fetches, storageQueue, userActed>>
     ELSE /\ SetSettings([settings EXCEPT !.location = Trim(locationInput)])
          /\ userActed' = TRUE
          /\ alert' = "Success"
  /\ UNCHANGED <<forecastData, screenVars, weatherData, storage, locationInput,
                 mounted, launchStorage, lastSaveOk>>

\* a toggle that leaves every unit system but 'metric' as it is
newUnitsFromMetric(units) == IF units = "metric" THEN "imperial" ELSE units

\* newUnits (SettingsScreen line 49)
newUnits(units) == IF units = "metric" THEN "imperial" ELSE "metric"

\* toggleUnits (SettingsScreen lines 48-54)
toggleUnits ==
  /\ mounted
  /\ SetSettings([settings EXCEPT !.units = newUnits(@)])
  /\ userActed' = TRUE
  /\ UNCHANGED <<forecastData, screenVars, weatherData, storage, locationInput,
                 mounted, launchStorage, lastSaveOk, alert>>

\* selectCity (SettingsScreen lines 57-63)
selectCity(city) ==
  /\ mounted
  /\ locationInput' = city
  /\ SetSettings([settings EXCEPT !.location = city])
  /\ userActed' = TRUE
  /\ UNCHANGED <<forecastData, screenVars, weatherData, storage,
                 mounted, launchStorage, lastSaveOk, alert>>

\* pull-to-refresh: refreshData is fetchWeatherData of the current render
Refresh ==
  /\ mounted
  /\ StartFetch(settings)
  /\ UNCHANGED <<forecastData, settings, screenVars, weatherData, storage, storageQueue,
                 locationInput, mounted, launchStorage, userActed, lastSaveOk, alert>>

\* loadSettings after its await (lines 1427-1433): getItem resolved or rejected.  A
\* stored value is parsed and set; null, a rejection and a SyntaxError change nothing
LoadSettingsResume(rejected) ==
  /\ storageQueue # <<>>
  /\ Head(storageQueue).op = "get"
  /\ IF rejected \/ storage = NoItem \/ ParseThrows(storage)
     THEN /\ storageQueue' = Tail(storageQueue)
          /\ UNCHANGED <<loading, settings, fetches>>
     ELSE /\ settings' = Parse(storage)
          /\ SettingsEffect(Tail(storageQueue), Parse(storage))
  /\ UNCHANGED <<forecastData, screenVars, weatherData, storage, locationInput,
                 mounted, launchStorage, userActed, lastSaveOk, alert>>

\* saveSettings after its await (lines 1439-1442): setItem stored the value, or it
\* rejected and the error is logged
SaveSettingsResume(rejected) ==
  /\ storageQueue # <<>>
  /\ Head(storageQueue).op = "set"
  /\ storageQueue' = Tail(storageQueue)
  /\ storage' = IF rejected THEN storage ELSE Head(storageQueue).value
  /\ lastSaveOk' = ~rejected
  /\ UNCHANGED <<forecastData, loading, settings, screenVars, weatherData, fetches,
                 locationInput, mounted, launchStorage, userActed, alert>>

\* the weather request of call i succeeded (lines 1450-1466): setWeatherData, then
\* the forecast request is sent
WeatherResponse(i) ==
  /\ fetches[i].stage = "weather"
  /\ weatherData' = AppPayload(i)
  /\ fetches' = [fetches EXCEPT ![i].stage = "forecast"]
  /\ UNCHANGED <<forecastData, loading, settings, screenVars, storage, storageQueue,
                 locationInput, mounted, launchStorage, userActed, lastSaveOk, alert>>

\* the forecast request of call i succeeded (lines 1477, 1494-1496):
\* setForecastData, then finally setLoading(false)
ForecastResponse(i) ==
  /\ fetches[i].stage = "forecast"
  /\ forecastData' = AppPayload(i)
  /\ loading' = FALSE
  /\ fetches' = [fetches EXCEPT ![i].stage = "done"]
  /\ UNCHANGED <<settings, screenVars, weatherData, storage, storageQueue,
                 locationInput, mounted, launchStorage, userActed, lastSaveOk, alert>>

\* a catch block that resets what is held (setWeatherData(null), setForecastData(null))
RequestFailedClears(i) ==
  /\ fetches[i].stage \in {"weather", "forecast"}
  /\ loading' = FALSE
  /\ weatherData' = NullData
  /\ forecastData' = NullData
  /\ fetches' = [fetches EXCEPT ![i].stage = "failed"]
  /\ UNCHANGED <<settings, screenVars, storage, storageQueue,
                 locationInput, mounted, launchStorage, userActed, lastSaveOk, alert>>

\* a request of call i failed (lines 1479-1496): the error is logged, then finally
\* setLoading(false); what is stored stays
RequestFailed(i) ==
  /\ fetches[i].stage \in {"weather", "forecast"}
  /\ loading' = FALSE
  /\ fetches' = [fetches EXCEPT ![i].stage = "failed"]
  /\ UNCHANGED <<forecastData, settings, screenVars, weatherData, storage, storageQueue,
                 locationInput, mounted, launchStorage, userActed, lastSaveOk, alert>>

NextApp ==
  \/ Mount
  \/ \E text \in LocationTexts : ChangeLocationInput(text)
  \/ updateLocation
  \/ toggleUnits
  \/ \E city \in POPULAR_CITIES : selectCity(city)
  \/ Refresh
  \/ \E rejected \in BOOLEAN : LoadSettingsResume(rejected)
  \/ \E rejected \in BOOLEAN : SaveSettingsResume(rejected)
  \/ \E i \in 1..Len(fetches) : WeatherResponse(i)
  \/ \E i \in 1..Len(fetches) : ForecastResponse(i)
  \/ \E i \in 1..Len(fetches) : RequestFailed(i)

SpecApp == InitApp /\ [][NextApp]_vars

----------------------------------------------------------------------------
(* The App after its launch, with SettingsScreen in use *)

\* the launch has settled: the App is mounted with the default settings or those
\* loaded from storage, they are saved, no request is in flight and the responses
\* of the launch's fetch are held
InitSettings ==
  /\ settings \in {DefaultSettings, [location |-> "Tokyo", units |-> "imperial"]}
  /\ weatherData = AppPayload(0)
  /\ forecastData = AppPayload(0)
  /\ loading = FALSE
  /\ fetches = <<>>
  /\ storage = Stringify(settings)
  /\ launchStorage = storage
  /\ storageQueue = <<>>
  /\ locationInput = DefaultSettings.location
  /\ mounted = TRUE
  /\ userActed = FALSE
  /\ lastSaveOk = TRUE
  /\ alert = "none"
  /\ view = "none"
  /\ dailyForecasts = <<>>
  /\ renders = 0
  /\ homeView = "none"
  /\ listKeys = <<>>

NextSettings ==
  \/ \E text \in LocationTexts : ChangeLocationInput(text)
  \/ updateLocation
  \/ toggleUnits
  \/ \E city \in POPULAR_CITIES : selectCity(city)
  \/ \E rejected \in BOOLEAN : SaveSettingsResume(rejected)
  \/ \E i \in 1..Len(fetches) : WeatherResponse(i)
  \/ \E i \in 1..Len(fetches) : ForecastResponse(i)
  \/ \E i \in 1..Len(fetches) : RequestFailed(i)

SpecSettings == InitSettings /\ [][NextSettings]_vars

----------------------------------------------------------------------------
(* Vocabulary of the properties, defined on the input list alone *)

inputList == forecastData.list

\* the aggregation ran to its end and the list of days is shown
Done == view = "list"

\* a render took place on a payload
Rendered == view # "none" /\ forecastData.kind = "payload"

\* a sample with a condition category: a first weather entry that has a main
HasCategory(item) == item.weather # <<>> /\ item.weather[1].main # Undefined

AllHaveCategory(l) == \A i \in 1..Len(l) : HasCategory(l[i])

SortedByTime(l) == \A i \in 1..(Len(l) - 1) : l[i].dt <= l[i + 1].dt

\* the local calendar day of a timestamp
CalendarDay(dt) == (dt + TzOffset) \div DayLen

\* the calendar day of an output entry, whose date is in milliseconds
EntryDay(e) == CalendarDay(e.date \div 1000)

DaysOf(l) == { CalendarDay(l[i].dt) : i \in 1..Len(l) }

\* the positions in the list of the samples of a day
DayIdx(l, d) == { i \in 1..Len(l) : CalendarDay(l[i].dt) = d }

\* the positions of the samples of a day that carry category c
CatIdx(l, d, c) == { i \in DayIdx(l, d) : HasCategory(l[i]) /\ l[i].weather[1].main = c }

Cats(l, d) == { l[i].weather[1].main : i \in { k \in DayIdx(l, d) : HasCategory(l[k]) } }

CatCount(l, d, c) == Cardinality(CatIdx(l, d, c))

\* the categories with the highest count of the day
TopCats(l, d) ==
  { c \in Cats(l, d) : \A c2 \in Cats(l, d) : CatCount(l, d, c) >= CatCount(l, d, c2) }

MinOf(S) == CHOOSE m \in S : \A x \in S : m <= x

\* the position and the time of the first occurrence of a category in a day
FirstPos(l, d, c) == MinOf(CatIdx(l, d, c))
FirstTime(l, d, c) == MinOf({ l[i].dt : i \in CatIdx(l, d, c) })

\* the permutations of 1..n, for every length of an input list
PermsOf ==
  [n \in 0..MaxLen |-> { p \in [1..n -> 1..n] : \A i, j \in 1..n : p[i] = p[j] => i = j }]

Perms(n) == PermsOf[n]

Permuted(l, p) == [i \in 1..Len(l) |-> l[p[i]]]

----------------------------------------------------------------------------
(* Properties *)

\* C1: grouping completeness.  Whenever the aggregation completes, the day of
\* every input sample is the day of exactly one output entry, and there are as
\* many output entries as distinct days in the input.
GroupingComplete ==
  Done =>
    /\ \A i \in 1..Len(inputList) :
         Cardinality({ j \in 1..Len(dailyForecasts) :
                         EntryDay(dailyForecasts[j]) = CalendarDay(inputList[i].dt) }) = 1
    /\ Len(dailyForecasts) = Cardinality(DaysOf(inputList))

\* three samples over two days were aggregated into two entries
GroupingCompleteWitness ==
  /\ Done
  /\ Len(inputList) = 3
  /\ Cardinality(DaysOf(inputList)) = 2
  /\ Len(dailyForecasts) = 2

\* C2: minTemp of every output entry is the minimum of temp_min over the samples
\* of its day and maxTemp the maximum of temp_max: a bound on every sample of the
\* day that one of them attains.
MinMaxCorrect ==
  Done =>
    \A j \in 1..Len(dailyForecasts) :
      LET e == dailyForecasts[j]
          idx == DayIdx(inputList, EntryDay(e))
      IN /\ \A i \in idx : e.minTemp <= inputList[i].main.temp_min
         /\ \E i \in idx : e.minTemp = inputList[i].main.temp_min
         /\ \A i \in idx : e.maxTemp >= inputList[i].main.temp_max
         /\ \E i \in idx : e.maxTemp = inputList[i].main.temp_max

\* a day of two samples: the minimum is not the first sample's and the maximum is
\* not the second sample's
MinMaxCorrectWitness ==
  /\ Done
  /\ \E j \in 1..Len(dailyForecasts) :
       LET e == dailyForecasts[j]
       IN /\ Len(e.items) >= 2
          /\ e.minTemp < e.items[1].main.temp_min
          /\ e.maxTemp > e.items[2].main.temp_max

\* C3: in every day in which one category occurs strictly more often than every
\* other, the entry's weather is a detail of that category, taken from a sample
\* of the day.
StrictMajorityWins ==
  Done =>
    \A j \in 1..Len(dailyForecasts) :
      LET e == dailyForecasts[j]
          d == EntryDay(e)
      IN \A c \in Cats(inputList, d) :
           (\A c2 \in Cats(inputList, d) \ {c} :
               CatCount(inputList, d, c) > CatCount(inputList, d, c2))
           => /\ e.weather.main = c
              /\ \E i \in CatIdx(inputList, d, c) : e.weather = inputList[i].weather[1]

\* a day [Clouds, Rain, Rain]: the majority category is not the first one seen
StrictMajorityWinsWitness ==
  /\ Done
  /\ Len(inputList) = 3
  /\ Cardinality(DaysOf(inputList)) = 1
  /\ inputList[1].weather[1].main = "Clouds"
  /\ inputList[2].weather[1].main = "Rain"
  /\ inputList[3].weather[1].main = "Rain"
  /\ dailyForecasts[1].weather.main = "Rain"

Shown(e) == [date |-> e.date, minTemp |-> e.minTemp, maxTemp |-> e.maxTemp, weather |-> e.weather]

ShownSeq(entries) == [j \in 1..Len(entries) |-> Shown(entries[j])]

HasStrictMajority(l, d) ==
  \E c \in Cats(l, d) : \A c2 \in Cats(l, d) \ {c} : CatCount(l, d, c) > CatCount(l, d, c2)

SortedAscending ==
  Done =>
    \A j \in 1..(Len(dailyForecasts) - 1) :
      dailyForecasts[j].date < dailyForecasts[j + 1].date

\* the input gave the later day first and the output has the earlier day first
SortedAscendingWitness ==
  /\ Done
  /\ Len(inputList) = 2
  /\ CalendarDay(inputList[1].dt) > CalendarDay(inputList[2].dt)
  /\ Len(dailyForecasts) = 2
  /\ dailyForecasts[1].date = ToDate(inputList[2].dt)

\* C8: rendered with a payload whose list is empty, the aggregation does not throw
\* and produces the empty sequence of days.
EmptyInputEmptyOutput ==
  (Rendered /\ inputList = <<>>) => (view = "list" /\ dailyForecasts = <<>>)

\* the empty list was aggregated
EmptyInputEmptyOutputWitness ==
  /\ Rendered
  /\ inputList = <<>>
  /\ view = "list"

\* the samples of the list that carry a category, in list order
RECURSIVE ValidPrefix(_, _)
ValidPrefix(l, n) ==
  IF n = 0 THEN <<>>
  ELSE IF HasCategory(l[n])
       THEN Append(ValidPrefix(l, n - 1), l[n])
       ELSE ValidPrefix(l, n - 1)

ValidOnly(l) == ValidPrefix(l, Len(l))

\* C9 as stated: when one sample of the list lacks a category and its day has
\* other samples, all valid, the run does not abort and every day's weather is
\* the one computed from the valid samples alone, wherever the malformed one sits.
MalformedSampleSkipped ==
  ( /\ Rendered
    /\ Cardinality({ i \in 1..Len(inputList) : ~HasCategory(inputList[i]) }) = 1
    /\ DaysOf(ValidOnly(inputList)) = DaysOf(inputList) )
  => /\ view = "list"
     /\ LET r == Aggregate(ValidOnly(inputList))
        IN /\ Len(r.value) = Len(dailyForecasts)
           /\ \A j \in 1..Len(dailyForecasts) :
                dailyForecasts[j].weather = r.value[j].weather

\* C10 as stated: when every sample of the list lacks a category, the run does not
\* abort and every day is emitted with the raw first weather entry (possibly
\* absent) of its first sample as weather.
DegenerateDayFallsBack ==
  ( /\ Rendered
    /\ inputList # <<>>
    /\ \A i \in 1..Len(inputList) : ~HasCategory(inputList[i]) )
  => /\ view = "list"
     /\ Len(dailyForecasts) = Cardinality(DaysOf(inputList))
     /\ \A j \in 1..Len(dailyForecasts) :
          dailyForecasts[j].weather =
            Weather0(inputList[MinOf(DayIdx(inputList, EntryDay(dailyForecasts[j])))])

\* C11 as stated: when the payload is absent, has no list, or has a list that is
\* no sequence, the render yields no daily summaries and does not raise.
UnavailableInputEmpty ==
  (view # "none" /\ forecastData.kind \in {"null", "nolist", "notarray"})
  => (view \in {"loading", "unavailable"} /\ dailyForecasts = <<>>)

EmptyListShownUnavailable ==
  (Rendered /\ inputList = <<>>) => view = "unavailable"

\* C19 as stated: a sample without a category still contributes its temp_min and
\* temp_max to the minTemp and maxTemp of its day, and the day's summary is produced.
CategorylessSampleContributes ==
  Rendered =>
    \A i \in 1..Len(inputList) :
      ~HasCategory(inputList[i]) =>
        /\ Done
        /\ \E j \in 1..Len(dailyForecasts) :
             /\ EntryDay(dailyForecasts[j]) = CalendarDay(inputList[i].dt)
             /\ dailyForecasts[j].minTemp <= inputList[i].main.temp_min
             /\ dailyForecasts[j].maxTemp >= inputList[i].main.temp_max

----------------------------------------------------------------------------
(* Properties of the App *)

\* the calls of fetchWeatherData still in flight, and those that ran to their end
\* with both requests successful
InFlight == { i \in 1..Len(fetches) : fetches[i].stage \in {"weather", "forecast"} }
Completed == { i \in 1..Len(fetches) : fetches[i].stage = "done" }

\* the calls whose responses the App holds as weatherData or forecastData
Held ==
  { d.fetch : d \in { x \in {weatherData, forecastData} : x.kind = "payload" } }

\* C14 as stated: once a newer fetch has completed, the App holds no data delivered
\* by an older fetch; and when all fetches have completed successfully the stored
\* data is that requested with the current settings.
NoStaleData ==
  /\ \A h \in Held : \A c \in Completed : c <= h
  /\ (fetches # <<>> /\ Completed = 1..Len(fetches)) =>
       \A h \in Held : fetches[h].params = settings

\* C15 as stated: loading is true whenever a call of fetchWeatherData is in flight.
LoadingTracksFetching == InFlight # {} => loading

SavedSettingsKept ==
  (~ParseThrows(launchStorage) /\ ~userActed) =>
    (~ParseThrows(storage) /\ Parse(storage) # DefaultSettings)

----------------------------------------------------------------------------
(* The partition of the samples, the keys and the order of the days *)

\* the positions of the samples of day d, in list order
RECURSIVE DayPositions(_, _, _)
DayPositions(l, d, n) ==
  IF n = 0 THEN <<>>
  ELSE IF CalendarDay(l[n].dt) = d
       THEN Append(DayPositions(l, d, n - 1), n)
       ELSE DayPositions(l, d, n - 1)

\* the samples of day d, in list order
DaySamples(l, d) ==
  LET pos == DayPositions(l, d, Len(l)) IN [k \in 1..Len(pos) |-> l[pos[k]]]

RECURSIVE SumItems(_, _)
\* the number of samples held by the first n entries together
SumItems(entries, n) ==
  IF n = 0 THEN 0 ELSE SumItems(entries, n - 1) + Len(entries[n].items)

\* C21: partition.  Whenever the aggregation completes, the items of every output
\* entry are exactly the input samples of the entry's calendar day, each as often
\* as the input holds it, no two entries are of the same day, and the entries
\* together hold as many samples as the input: every sample is in one entry only.
Partition ==
  Done =>
    /\ \A j \in 1..Len(dailyForecasts) :
         dailyForecasts[j].items = DaySamples(inputList, EntryDay(dailyForecasts[j]))
    /\ \A j, k \in 1..Len(dailyForecasts) :
         EntryDay(dailyForecasts[j]) = EntryDay(dailyForecasts[k]) => j = k
    /\ SumItems(dailyForecasts, Len(dailyForecasts)) = Len(inputList)

\* three samples, two of one day with another day's sample between them, were
\* aggregated: one entry holds two samples, the other one
PartitionWitness ==
  /\ Done
  /\ Len(inputList) = 3
  /\ CalendarDay(inputList[1].dt) = CalendarDay(inputList[3].dt)
  /\ CalendarDay(inputList[1].dt) # CalendarDay(inputList[2].dt)
  /\ Len(dailyForecasts) = 2
  /\ \E j \in 1..2 : dailyForecasts[j].items = <<inputList[1], inputList[3]>>

----------------------------------------------------------------------------
(* The views of the screens *)

\* a forecast payload is held / current weather is held
ForecastHeld == forecastData # NullData
WeatherHeld == weatherData # NullData

----------------------------------------------------------------------------
(* The keys and the order of the days *)

\* C23: the keys of the rows are pairwise distinct.  Whenever the aggregation
\* completes, every output entry has a key and no two output entries have the
\* same key or the same date, whatever the order of the input.
KeysDistinct ==
  Done =>
    /\ Len(listKeys) = Len(dailyForecasts)
    /\ \A j, k \in 1..Len(dailyForecasts) :
         j # k => /\ listKeys[j] # listKeys[k]
                  /\ dailyForecasts[j].date # dailyForecasts[k].date

\* an input that is not sorted by time, with samples of two days at the same time
\* of day, was aggregated into two rows
KeysDistinctWitness ==
  /\ Done
  /\ Len(inputList) = 3
  /\ ~SortedByTime(inputList)
  /\ Len(listKeys) = 2
  /\ listKeys[1].time = listKeys[2].time
  /\ listKeys[1] # listKeys[2]

\* C24: the output is in ascending calendar-day order.  Whenever the aggregation
\* completes, of any two output entries the one that comes first is of the earlier
\* calendar day, also when the date of an entry is not the earliest time of its day.
CalendarDayOrder ==
  Done =>
    \A j, k \in 1..Len(dailyForecasts) :
      j < k => EntryDay(dailyForecasts[j]) < EntryDay(dailyForecasts[k])

\* the input gave the later day first and the earlier day's latest sample before
\* its earliest: the earlier day comes first in the output, with a date that is not
\* the earliest time of that day
CalendarDayOrderWitness ==
  /\ Done
  /\ Len(inputList) = 3
  /\ CalendarDay(inputList[1].dt) > CalendarDay(inputList[2].dt)
  /\ CalendarDay(inputList[2].dt) = CalendarDay(inputList[3].dt)
  /\ inputList[2].dt > inputList[3].dt
  /\ Len(dailyForecasts) = 2
  /\ dailyForecasts[1].date = ToDate(inputList[2].dt)
  /\ EntryDay(dailyForecasts[1]) < EntryDay(dailyForecasts[2])

----------------------------------------------------------------------------
(* The handlers of SettingsScreen *)

\* a text that is empty or white space only
BlankText(text) == text \in {"", " "}

\* the texts with white space at an end, and what is left of them without it
Padded == {" Paris "}
CoreOf(text) == IF text = " Paris " THEN "Paris" ELSE text

\* C25: updateLocation rejects a blank location.  A step of updateLocation with an
\* empty or white-space input leaves settings as they are, issues no save, starts
\* no fetch and raises the 'Error' alert; with any other input the location
\* becomes the input without its outer white space and the units stay.
BlankLocationRejected ==
  [][updateLocation =>
       IF BlankText(locationInput)
       THEN /\ settings' = settings
            /\ storageQueue' = storageQueue
            /\ fetches' = fetches
            /\ loading' = loading
            /\ alert' = "Error"
       ELSE /\ settings'.location = CoreOf(locationInput)
            /\ settings'.units = settings.units]_vars

\* after a change of the units and while its save and fetch are pending, a blank
\* input was rejected: the alert is up, nothing else was issued
BlankLocationRejectedWitness ==
  /\ alert = "Error"
  /\ BlankText(locationInput)
  /\ settings = [location |-> "London", units |-> "imperial"]
  /\ Len(fetches) = 1
  /\ Len(storageQueue) = 1

\* a text that begins or ends with white space
HasOuterSpace(text) == text \in {" ", " Paris ", " Paris", "Paris "}

\* C26: the settings stay well formed.  After every sequence of updateLocation,
\* selectCity and toggleUnits the location is a non-empty text that neither begins
\* nor ends with white space, and the units are 'metric' or 'imperial'.
SettingsWellFormed ==
  /\ settings.location # ""
  /\ ~HasOuterSpace(settings.location)
  /\ settings.units \in {"metric", "imperial"}

\* from the default settings two handlers have run: the location is the typed
\* text without its outer white space and the units are toggled
SettingsWellFormedWitness ==
  /\ launchStorage = Stringify(DefaultSettings)
  /\ userActed
  /\ Len(fetches) = 2
  /\ locationInput = " Paris "
  /\ settings = [location |-> "Paris", units |-> "imperial"]

\* the other unit system
Toggled(units) == IF units = "metric" THEN "imperial" ELSE "metric"

\* the settings after the n-th change made since the launch settled: every change
\* starts a fetch with the new settings, the settled settings are the saved ones
SettingsAfterChange(n) == IF n = 0 THEN Parse(launchStorage) ELSE fetches[n].params

\* the latest change was a change of the units
LastChangeWasToggle ==
  /\ fetches # <<>>
  /\ SettingsAfterChange(Len(fetches) - 1).units # settings.units

\* C27: toggleUnits changes the unit system only.  A step of toggleUnits turns
\* 'metric' into 'imperial' and every other value into 'metric', and leaves the
\* location of the settings and the location input as they are; when it follows
\* another change of the units, the settings are again what they were before the
\* two.
UnitsToggleOnly ==
  [][toggleUnits =>
       /\ settings'.units = Toggled(settings.units)
       /\ settings'.location = settings.location
       /\ locationInput' = locationInput
       /\ LastChangeWasToggle =>
            settings' = SettingsAfterChange(Len(fetches) - 1)]_vars

\* the units were toggled twice from the loaded settings, with another text in the
\* location input: the settings are the loaded ones again, the input is kept
UnitsToggleOnlyWitness ==
  /\ Len(fetches) = 2
  /\ launchStorage = <<"Tokyo", "imperial">>
  /\ fetches[1].params = [location |-> "Tokyo", units |-> "metric"]
  /\ fetches[2].params = [location |-> "Tokyo", units |-> "imperial"]
  /\ settings = Parse(launchStorage)
  /\ locationInput = " Paris "

----------------------------------------------------------------------------
(* Failed requests *)

\* a request of call i fails in this step
FetchFails(i) ==
  /\ fetches[i].stage \in {"weather", "forecast"}
  /\ Len(fetches') = Len(fetches)
  /\ fetches'[i].stage = "failed"

\* C28: a failed fetch keeps what is held.  In a step in which a request of a call
\* of fetchWeatherData fails, weatherData and forecastData stay as they are and
\* loading becomes false; the forecast held afterwards is never that of the failed
\* call, also when its current-weather response had been stored before.
FailedFetchKeepsData ==
  [][\A i \in 1..Len(fetches) :
       FetchFails(i) =>
         /\ weatherData' = weatherData
         /\ forecastData' = forecastData
         /\ loading' = FALSE
         /\ forecastData' # AppPayload(i)]_vars

\* the first call completed, the second stored its current weather and then its
\* forecast request failed: weatherData is that of the second call, forecastData
\* still that of the first, loading is false
FailedFetchKeepsDataWitness ==
  /\ Len(fetches) = 2
  /\ fetches[1].stage = "done"
  /\ fetches[2].stage = "failed"
  /\ weatherData = AppPayload(2)
  /\ forecastData = AppPayload(1)
  /\ ~loading

====
